---------------------------- MODULE Spec2Model ----------------------------
(***************************************************************************)
(* A model of abi-coder's Coder class (src/src/index.ts, lines 278-635):   *)
(* fragment lookup by name / selector / topic, canonical signatures,       *)
(* selector and topic derivation, the event field splitter / merger and    *)
(* the value mapper.                                                       *)
(*                                                                         *)
(* JavaScript strings are TLA+ strings.  An optional field of a JSON       *)
(* fragment (name?, inputs?, outputs?) is a sequence of length 0 (absent)  *)
(* or 1 (present).  A call either returns, [ok |-> TRUE, value |-> v], or  *)
(* throws, [ok |-> FALSE].                                                 *)
(***************************************************************************)
EXTENDS Integers, Sequences, FiniteSets, TLC

VARIABLES
    abi,    \* Coder.abi: the JsonFragment[] handed to the constructor
    op,     \* the call the caller has made and not yet let go of ("idle": none)
    args,   \* that call's arguments
    ret     \* what that call returned or threw

vars == <<abi, op, args, ret>>

-----------------------------------------------------------------------------
(* Bounds of the model *)

\* longest ABI (number of fragments) a Coder is constructed with
MaxAbiLen == 2
\* longest parameter list / component list / value sequence that is enumerated
MaxParams == 2
\* values are the hex digits 0..MaxVal
MaxVal == 1

-----------------------------------------------------------------------------
(* JavaScript values and built-ins the code relies on *)

\* the JavaScript value undefined
Undefined == "undefined"

None == <<>>
Some(x) == <<x>>
IsSome(o) == Len(o) = 1
Get(o) == o[1]

Throw == [ok |-> FALSE]
Return(v) == [ok |-> TRUE, value |-> v]

Min(a, b) == IF a < b THEN a ELSE b

\* String.prototype.substring(start, end) for 0 <= start <= end
substring(s, start, end) == SubSeq(s, Min(start, Len(s)) + 1, Min(end, Len(s)))

\* String.prototype.substring(start)
substringFrom(s, start) == SubSeq(s, Min(start, Len(s)) + 1, Len(s))

\* String.prototype.startsWith(prefix)
startsWith(s, prefix) == Len(s) >= Len(prefix) /\ SubSeq(s, 1, Len(prefix)) = prefix

\* Array.prototype.join(sep) on an array of strings
RECURSIVE join(_, _)
join(strs, sep) ==
    IF Len(strs) = 0 THEN ""
    ELSE IF Len(strs) = 1 THEN strs[1]
    ELSE strs[1] \o sep \o join(Tail(strs), sep)

\* Array.prototype.find(test) is the first element of Array.prototype.filter(test)
\* (filter is SelectSeq): `first` of the filtered array, if it has one
first(seq) == IF Len(seq) = 0 THEN None ELSE Some(Head(seq))

\* all sequences over S of length lo..hi
SeqsOf(S, lo, hi) == UNION {[1..n -> S] : n \in lo..hi}

-----------------------------------------------------------------------------
(* Parameter model *)

\* an elementary parameter: uint256, address, bool, bytes1, uint256[3], ...
Elem(name, type, indexed) ==
    [name |-> name, type |-> type, indexed |-> indexed, components |-> <<>>]

\* a tuple parameter; type is "tuple" followed by array suffixes
Tuple(name, type, indexed, components) ==
    [name |-> name, type |-> type, indexed |-> indexed, components |-> components]

\* ParamType.fromObject of @ethersproject/abi: the JSON parameter record as a
\* ParamType (same name, type, indexed flag; components converted in turn)
RECURSIVE fromObject(_)
fromObject(input) ==
    [name |-> input.name, type |-> input.type, indexed |-> input.indexed,
     components |-> [i \in 1..Len(input.components) |-> fromObject(input.components[i])]]

\* jsonInputs.map((input) => ParamType.fromObject(input))
mapFromObject(jsonInputs) == [i \in 1..Len(jsonInputs) |-> fromObject(jsonInputs[i])]

-----------------------------------------------------------------------------
(* Signature canonicalizer: Coder.getSignature *)

RECURSIVE getSignature(_, _)

\* mutant of signatureType: only "tuple" and "tuple[]" are taken apart
signatureTypeTwoCases(input) ==
    IF input.type = "tuple" THEN getSignature("", input.components)
    ELSE IF input.type = "tuple[]" THEN getSignature("", input.components) \o "[]"
    ELSE input.type

\* the type string pushed to `types` for one input (the loop body)
signatureType(input) ==
    IF startsWith(input.type, "tuple")
    THEN LET tupleString == getSignature("", input.components)
             arrayArityString == substringFrom(input.type, Len("tuple"))
         IN  tupleString \o arrayArityString
    ELSE input.type

\* mutant of getSignature: an indexed input is rendered with its flag, as a
\* declaration would be
getSignatureWithIndexed(name, inputs) ==
    LET types == [i \in 1..Len(inputs) |->
                     signatureType(inputs[i])
                         \o (IF inputs[i].indexed THEN " indexed" ELSE "")]
        typeString == join(types, ",")
    IN  name \o "(" \o typeString \o ")"

getSignature(name, inputs) ==
    LET types == [i \in 1..Len(inputs) |-> signatureType(inputs[i])]
        typeString == join(types, ",")
    IN  name \o "(" \o typeString \o ")"


-----------------------------------------------------------------------------
(* Selector / topic deriver: sha3 *)

\* the signatures whose Keccak-256 digest the table below holds
HashedSignatures ==
    {"transfer(address,uint256)",
     "many_msg_babbage(bytes1)",
     "transfer(bool)",
     "transfer(uint256,bool,address)",
     "many_msg_babbage(uint256,uint256)",
     "many_msg_babbage((uint256,(address)[3])[])",
     "()",
     "(uint256)"}

\* keccak256(toUtf8Bytes(input)) of @ethersproject: "0x" and the 64 hex digits of
\* the Keccak-256 digest of the signature's bytes.  The digests are the real ones of
\* the signatures the fragments of this model render to.
sha3(input) ==
    CASE input = "transfer(address,uint256)"
         -> "0xa9059cbb2ab09eb219583f4a59a5d0623ade346d962bcd4e46b11da047c9049b"
      [] input = "many_msg_babbage(bytes1)"
         -> "0xa9059cbbcc9aef9dcddb4bed0a2539bfd188933fc715386df89928f954335ff3"
      [] input = "transfer(bool)"
         -> "0xac2909884eb4acac17b2f25c32cd4a74635bd9c274e7a92401fef0dea0baaa96"
      [] input = "transfer(uint256,bool,address)"
         -> "0x52268ceca3cae1eed8669cd8a78333610f24f15fbcec9142807fa7b4b63ea8ea"
      [] input = "many_msg_babbage(uint256,uint256)"
         -> "0x70f231107fc1d10c24ba1aad4bcb3fe8eddb464e307f8041cb3ee658bf6a5073"
      [] input = "many_msg_babbage((uint256,(address)[3])[])"
         -> "0xd162f380075b16f3f80119b5088306ae60aa95e73370570e31850a70be0fe896"
      [] input = "()"
         -> "0x861731d50c3880a2ca1994d5ec287b94b2f4bd832a67d3e41c08177bdd5674fe"
      [] input = "(uint256)"
         -> "0x6d9b6a6ba6f2b64172a019795ce30b3050da8b384c77e33808ee45dfc40157c4"
      [] OTHER
         -> "0x0000000000000000000000000000000000000000000000000000000000000000"

-----------------------------------------------------------------------------
(* The external binary codec, defaultAbiCoder of @ethersproject/abi, for the   *)
(* static elementary types: one 32-byte word (64 hex digits) per value.       *)

HexDigits == "0123456789abcdef"
HexDigit(n) == SubSeq(HexDigits, n + 1, n + 1)

\* the values a caller passes: the numbers 0..MaxVal, each written as a hex digit
\* (for a bool, "0" is false and "1" is true)
Values == {HexDigit(n) : n \in 0..MaxVal}

ZeroWord == "0000000000000000000000000000000000000000000000000000000000000000"
Zeros(n) == SubSeq(ZeroWord, 1, n)

\* one value as a word: a bool is coerced (value ? 1 : 0), bytesN is padded on the
\* right, a number or address on the left; undefined is rejected by every coder
\* but the bool's
encodeWord(type, value) ==
    IF type = "bool"
    THEN Return(Zeros(63) \o (IF value \in {Undefined, "0"} THEN "0" ELSE "1"))
    ELSE IF value = Undefined THEN Throw
    ELSE IF startsWith(type, "bytes") THEN Return("0" \o value \o Zeros(62))
    ELSE Return(Zeros(63) \o value)

\* one word as a value: the inverse of encodeWord on the values above; any other
\* word decodes to itself (the number it spells)
decodeWord(type, word) ==
    IF type = "bool" THEN (IF word = ZeroWord THEN "0" ELSE "1")
    ELSE IF startsWith(type, "bytes")
    THEN (IF SubSeq(word, 1, 1) = "0" THEN SubSeq(word, 2, 2) ELSE word)
    ELSE (IF SubSeq(word, 1, 63) = Zeros(63) THEN SubSeq(word, 64, 64) ELSE word)

\* defaultAbiCoder.encode(types, values): throws when the lengths differ or a
\* value cannot be coerced
encode(types, values) ==
    IF Len(types) # Len(values) THEN Throw
    ELSE LET words == [i \in 1..Len(types) |-> encodeWord(types[i].type, values[i])]
         IN  IF \E i \in 1..Len(types) : ~words[i].ok THEN Throw
             ELSE Return("0x" \o join([i \in 1..Len(types) |-> words[i].value], ""))

\* defaultAbiCoder.decode(types, data): throws when data is not a hex string or
\* is shorter than the words the types need; trailing bytes are ignored
decode(types, data) ==
    IF ~startsWith(data, "0x") \/ Len(data) - 2 < 64 * Len(types) THEN Throw
    ELSE LET hex == substringFrom(data, 2)
         IN  Return([i \in 1..Len(types) |->
                        decodeWord(types[i].type, SubSeq(hex, 64 * (i - 1) + 1, 64 * i))])

-----------------------------------------------------------------------------
(* Value mapper: toValueMap, toValues *)

\* property names every plain object inherits from Object.prototype
ObjectPrototypeKeys == {"constructor", "toString", "valueOf", "hasOwnProperty"}

\* what reading an inherited property yields: a function, never undefined
InheritedFunction == "[Function]"

\* valueMap[name]: the own property, else the inherited one, else undefined
property(valueMap, name) ==
    IF name \in DOMAIN valueMap THEN valueMap[name]
    ELSE IF name \in ObjectPrototypeKeys THEN InheritedFunction
    ELSE Undefined

\* mutant of toValueMap: a key already written is not written again
toValueMapFirstWins(values, inputs) ==
    [k \in {inputs[i].name : i \in 1..Len(values)} |->
        LET firstAt == CHOOSE i \in 1..Len(values) :
                           /\ inputs[i].name = k
                           /\ \A j \in 1..Len(values) : inputs[j].name = k => i <= j
        IN  values[firstAt]]

\* Object.fromEntries(values.map((value, index) => [inputs[index].name, value])):
\* one key per name, a later entry overwriting an earlier one of the same name.
\* Defined for Len(values) <= Len(inputs); inputs[index].name throws beyond.
toValueMap(values, inputs) ==
    [k \in {inputs[i].name : i \in 1..Len(values)} |->
        LET last == CHOOSE i \in 1..Len(values) :
                        /\ inputs[i].name = k
                        /\ \A j \in 1..Len(values) : inputs[j].name = k => j <= i
        IN  values[last]]

\* mutant of toValues: the map is read under the type, not the name
toValuesByType(valueMap, inputs) ==
    [i \in 1..Len(inputs) |-> property(valueMap, inputs[i].type)]

toValues(valueMap, inputs) ==
    [i \in 1..Len(inputs) |-> property(valueMap, inputs[i].name)]

-----------------------------------------------------------------------------
(* Fragment registry: the private lookups of Coder *)

\* a JsonFragment: name, inputs and outputs are optional
Fragment(type, name, inputs, outputs) ==
    [type |-> type, name |-> name, inputs |-> inputs, outputs |-> outputs]

\* item.name === name
nameIs(item, name) == IsSome(item.name) /\ Get(item.name) = name

\* !x for an optional string: absent or empty
falsy(optString) == ~IsSome(optString) \/ Get(optString) = ""

\* mutant of getConstructor: an ABI without a constructor entry is taken to have
\* the default constructor, which has no inputs
getConstructorDefault ==
    LET isConstructor(item) == item.type = "constructor"
        constructor == first(SelectSeq(abi, isConstructor))
    IN  IF ~IsSome(constructor) THEN Return(Fragment("constructor", None, Some(<<>>), None))
        ELSE Return(Get(constructor))

getConstructor ==
    LET isConstructor(item) == item.type = "constructor"
        constructor == first(SelectSeq(abi, isConstructor))
    IN  IF ~IsSome(constructor) THEN Throw ELSE Return(Get(constructor))

\* mutant of getFunctionByName: the type of the entry is not looked at
getFunctionByNameAnyType(name) ==
    LET matches(item) == nameIs(item, name)
        func == first(SelectSeq(abi, matches))
    IN  IF ~IsSome(func) THEN Throw ELSE Return(Get(func))

getFunctionByName(name) ==
    LET matches(item) == item.type = "function" /\ nameIs(item, name)
        func == first(SelectSeq(abi, matches))
    IN  IF ~IsSome(func) THEN Throw ELSE Return(Get(func))

\* mutant of selectorMatches: the hash is cut as encodeFunction cuts it, without
\* its "0x"
selectorMatchesNoPrefix(func, selector) ==
    IF falsy(func.name) \/ ~IsSome(func.inputs) THEN FALSE
    ELSE LET inputs == mapFromObject(Get(func.inputs))
             signature == getSignature(Get(func.name), inputs)
             hash == sha3(signature)
             funcSelector == substring(hash, 2, 10)
         IN  funcSelector = selector

\* the predicate of getFunctionBySelector's find
selectorMatches(func, selector) ==
    IF falsy(func.name) \/ ~IsSome(func.inputs) THEN FALSE
    ELSE LET inputs == mapFromObject(Get(func.inputs))
             signature == getSignature(Get(func.name), inputs)
             hash == sha3(signature)
             funcSelector == substring(hash, 0, 10)
         IN  funcSelector = selector

\* mutant of getFunctionBySelector: the last matching entry is returned, not the
\* first
getFunctionBySelectorLast(selector) ==
    LET isFunction(item) == item.type = "function" \/ item.type = "error"
        functions == SelectSeq(abi, isFunction)
        matches(item) == selectorMatches(item, selector)
        found == SelectSeq(functions, matches)
    IN  IF Len(found) = 0 THEN Throw ELSE Return(found[Len(found)])

getFunctionBySelector(selector) ==
    LET isFunction(item) == item.type = "function" \/ item.type = "error"
        functions == SelectSeq(abi, isFunction)
        matches(item) == selectorMatches(item, selector)
        func == first(SelectSeq(functions, matches))
    IN  IF ~IsSome(func) THEN Throw ELSE Return(Get(func))

getEventByName(name) ==
    LET matches(item) == item.type = "event" /\ nameIs(item, name)
        event == first(SelectSeq(abi, matches))
    IN  IF ~IsSome(event) THEN Throw ELSE Return(Get(event))

\* the predicate of getEventByTopic's find
topicMatches(event, topic) ==
    IF falsy(event.name) \/ ~IsSome(event.inputs) THEN FALSE
    ELSE LET inputs == mapFromObject(Get(event.inputs))
             signature == getSignature(Get(event.name), inputs)
             eventTopic == sha3(signature)
         IN  eventTopic = topic

\* mutant of getEventByTopic: the last matching event is returned, not the first
getEventByTopicLast(topic) ==
    LET isEvent(item) == item.type = "event"
        events == SelectSeq(abi, isEvent)
        matches(item) == topicMatches(item, topic)
        found == SelectSeq(events, matches)
    IN  IF Len(found) = 0 THEN Throw ELSE Return(found[Len(found)])

getEventByTopic(topic) ==
    LET isEvent(item) == item.type = "event"
        events == SelectSeq(abi, isEvent)
        matches(item) == topicMatches(item, topic)
        event == first(SelectSeq(events, matches))
    IN  IF ~IsSome(event) THEN Throw ELSE Return(Get(event))

-----------------------------------------------------------------------------
(* The public operations of Coder *)

\* array[index]: undefined past the end
at(array, index) == IF index < Len(array) THEN array[index + 1] ELSE Undefined

\* inputs.filter((input) => input.indexed)
topicInputsOf(inputs) ==
    LET isIndexed(input) == input.indexed
    IN  SelectSeq(inputs, isIndexed)

\* inputs.filter((input) => !input.indexed)
dataInputsOf(inputs) ==
    LET notIndexed(input) == ~input.indexed
    IN  SelectSeq(inputs, notIndexed)

\* mutant of getFunctionSelector: eight characters of the hash are kept, as for a
\* hash without "0x"
getFunctionSelectorEight(name) ==
    LET func == getFunctionByName(name)
    IN  IF ~func.ok THEN Throw
        ELSE IF ~IsSome(func.value.inputs) THEN Throw
        ELSE LET inputs == mapFromObject(Get(func.value.inputs))
                 signature == getSignature(name, inputs)
                 hash == sha3(signature)
             IN  Return(substring(hash, 0, 8))

getFunctionSelector(name) ==
    LET func == getFunctionByName(name)
    IN  IF ~func.ok THEN Throw
        ELSE IF ~IsSome(func.value.inputs) THEN Throw
        ELSE LET inputs == mapFromObject(Get(func.value.inputs))
                 signature == getSignature(name, inputs)
                 hash == sha3(signature)
             IN  Return(substring(hash, 0, 10))

getEventTopic(name) ==
    LET event == getEventByName(name)
    IN  IF ~event.ok THEN Throw
        ELSE IF ~IsSome(event.value.inputs) THEN Throw
        ELSE LET inputs == mapFromObject(Get(event.value.inputs))
                 signature == getSignature(name, inputs)
             IN  Return(sha3(signature))

decodeConstructor(data) ==
    LET constructor == getConstructor
    IN  IF ~constructor.ok THEN Throw
        ELSE IF ~IsSome(constructor.value.inputs) THEN Throw
        ELSE LET inputs == mapFromObject(Get(constructor.value.inputs))
                 result == decode(inputs, data)
             IN  IF ~result.ok THEN Throw
                 ELSE Return([inputs |-> inputs,
                              values |-> toValueMap(result.value, inputs)])

\* mutant of concatResults: the topic values first, then the data values
concatResultsTopicsFirst(inputs, topicResult, dataResult) == topicResult \o dataResult

\* the loop of decodeEvent that concatenates topicResult and dataResult into
\* `result`, in the order of inputs
RECURSIVE concatResults(_, _, _)
concatResults(inputs, topicResult, dataResult) ==
    IF Len(inputs) = 0 THEN <<>>
    ELSE IF Head(inputs).indexed
    THEN <<Head(topicResult)>> \o concatResults(Tail(inputs), Tail(topicResult), dataResult)
    ELSE <<Head(dataResult)>> \o concatResults(Tail(inputs), topicResult, Tail(dataResult))

\* decodeEvent up to its `result` array: the event found, its inputs, and the
\* decoded values in the order of the inputs
decodeEventResult(topics, data) ==
    LET event == getEventByTopic(at(topics, 0))
        dataTopics == IF Len(topics) = 0 THEN <<>> ELSE Tail(topics)
    IN  IF ~event.ok THEN Throw
        ELSE IF ~IsSome(event.value.inputs) THEN Throw
        ELSE LET inputs == mapFromObject(Get(event.value.inputs))
                 topicInputs == topicInputsOf(inputs)
                 topicDecoded == [i \in 1..Len(topicInputs) |->
                                     decode(<<topicInputs[i]>>, at(dataTopics, i - 1))]
                 dataInputs == dataInputsOf(inputs)
                 dataDecoded == decode(dataInputs, data)
             IN  IF \E i \in 1..Len(topicInputs) : ~topicDecoded[i].ok THEN Throw
                 ELSE IF ~dataDecoded.ok THEN Throw
                 ELSE IF falsy(event.value.name) THEN Throw
                 ELSE LET topicResult == [i \in 1..Len(topicInputs) |->
                                             topicDecoded[i].value[1]]
                          dataResult == dataDecoded.value
                      IN  Return([name |-> Get(event.value.name),
                                  inputs |-> inputs,
                                  result |-> concatResults(inputs, topicResult, dataResult)])

decodeEvent(topics, data) ==
    LET decoded == decodeEventResult(topics, data)
    IN  IF ~decoded.ok THEN Throw
        ELSE Return([name |-> decoded.value.name,
                     inputs |-> decoded.value.inputs,
                     values |-> toValueMap(decoded.value.result, decoded.value.inputs)])

decodeFunction(data) ==
    LET selector == substring(data, 0, 10)
        func == getFunctionBySelector(selector)
    IN  IF ~func.ok THEN Throw
        ELSE IF ~IsSome(func.value.inputs) THEN Throw
        ELSE LET inputs == mapFromObject(Get(func.value.inputs))
                 calldata == "0x" \o substringFrom(data, 10)
                 result == decode(inputs, calldata)
             IN  IF ~result.ok THEN Throw
                 ELSE IF falsy(func.value.name) THEN Throw
                 ELSE Return([name |-> Get(func.value.name),
                              inputs |-> inputs,
                              values |-> toValueMap(result.value, inputs)])

decodeFunctionOutput(name, data) ==
    LET func == getFunctionByName(name)
    IN  IF ~func.ok THEN Throw
        ELSE IF ~IsSome(func.value.outputs) THEN Throw
        ELSE LET outputs == mapFromObject(Get(func.value.outputs))
                 result == decode(outputs, data)
             IN  IF ~result.ok THEN Throw
                 ELSE Return([name |-> name,
                              outputs |-> outputs,
                              values |-> toValueMap(result.value, outputs)])

encodeConstructor(valueMap) ==
    LET constructor == getConstructor
    IN  IF ~constructor.ok THEN Throw
        ELSE IF ~IsSome(constructor.value.inputs) THEN Throw
        ELSE LET inputs == mapFromObject(Get(constructor.value.inputs))
                 values == toValues(valueMap, inputs)
             IN  encode(inputs, values)

\* mutant of groupValues: the test of the indexed flag is inverted
RECURSIVE groupValuesInverted(_, _, _)
groupValuesInverted(inputs, values, wanted) ==
    IF Len(inputs) = 0 THEN <<>>
    ELSE IF Head(inputs).indexed # wanted
    THEN <<property(values, Head(inputs).name)>>
             \o groupValuesInverted(Tail(inputs), values, wanted)
    ELSE groupValuesInverted(Tail(inputs), values, wanted)

\* the values of encodeEvent's first loop: those of the indexed inputs
\* (topicResult, wanted = TRUE) or of the others (dataResult, wanted = FALSE)
RECURSIVE groupValues(_, _, _)
groupValues(inputs, values, wanted) ==
    IF Len(inputs) = 0 THEN <<>>
    ELSE IF Head(inputs).indexed = wanted
    THEN <<property(values, Head(inputs).name)>> \o groupValues(Tail(inputs), values, wanted)
    ELSE groupValues(Tail(inputs), values, wanted)

encodeEvent(name, values) ==
    LET event == getEventByName(name)
    IN  IF ~event.ok THEN Throw
        ELSE IF ~IsSome(event.value.inputs) THEN Throw
        ELSE LET inputs == mapFromObject(Get(event.value.inputs))
                 eventSignature == getSignature(name, inputs)
                 eventTopic == sha3(eventSignature)
                 topicResult == groupValues(inputs, values, TRUE)
                 dataResult == groupValues(inputs, values, FALSE)
                 topicInputs == topicInputsOf(inputs)
                 dataTopics == [i \in 1..Len(topicInputs) |->
                                   encode(<<topicInputs[i]>>, <<at(topicResult, i - 1)>>)]
                 dataInputs == dataInputsOf(inputs)
                 data == encode(dataInputs, dataResult)
             IN  IF \E i \in 1..Len(topicInputs) : ~dataTopics[i].ok THEN Throw
                 ELSE IF ~data.ok THEN Throw
                 ELSE Return([topics |-> <<eventTopic>> \o
                                  [i \in 1..Len(topicInputs) |-> dataTopics[i].value],
                              data |-> data.value])

\* mutant of encodeFunction: the "0x" of the encoded arguments is kept
encodeFunctionKeepsPrefix(name, valueMap) ==
    LET func == getFunctionByName(name)
    IN  IF ~func.ok THEN Throw
        ELSE IF ~IsSome(func.value.inputs) THEN Throw
        ELSE LET inputs == mapFromObject(Get(func.value.inputs))
                 signature == getSignature(name, inputs)
                 selector == substring(sha3(signature), 2, 10)
                 values == toValues(valueMap, inputs)
                 argumentString == encode(inputs, values)
             IN  IF ~argumentString.ok THEN Throw
                 ELSE Return("0x" \o selector \o argumentString.value)

encodeFunction(name, valueMap) ==
    LET func == getFunctionByName(name)
    IN  IF ~func.ok THEN Throw
        ELSE IF ~IsSome(func.value.inputs) THEN Throw
        ELSE LET inputs == mapFromObject(Get(func.value.inputs))
                 signature == getSignature(name, inputs)
                 selector == substring(sha3(signature), 2, 10)
                 values == toValues(valueMap, inputs)
                 argumentString == encode(inputs, values)
             IN  IF ~argumentString.ok THEN Throw
                 ELSE LET argumentData == substringFrom(argumentString.value, 2)
                      IN  Return("0x" \o selector \o argumentData)

encodeFunctionOutput(name, valueMap) ==
    LET func == getFunctionByName(name)
    IN  IF ~func.ok THEN Throw
        ELSE IF ~IsSome(func.value.outputs) THEN Throw
        ELSE LET outputs == mapFromObject(Get(func.value.outputs))
                 values == toValues(valueMap, outputs)
             IN  encode(outputs, values)

-----------------------------------------------------------------------------
(* The ABIs a Coder is constructed with, and the arguments callers pass *)

FnTransfer ==
    Fragment("function", Some("transfer"),
             Some(<<Elem("a", "address", FALSE), Elem("b", "uint256", FALSE)>>),
             Some(<<Elem("c", "bool", FALSE)>>))

\* its selector is that of transfer(address,uint256): 0xa9059cbb
FnBabbage ==
    Fragment("function", Some("many_msg_babbage"),
             Some(<<Elem("a", "bytes1", FALSE)>>), Some(<<>>))

\* an overload of transfer
FnTransferBool ==
    Fragment("function", Some("transfer"),
             Some(<<Elem("b", "bool", FALSE)>>),
             Some(<<Elem("a", "uint256", FALSE)>>))

\* an error with the signature of FnTransfer and other parameter names
ErrTransfer ==
    Fragment("error", Some("transfer"),
             Some(<<Elem("b", "address", FALSE), Elem("c", "uint256", FALSE)>>), None)

\* a function entry without inputs and outputs
FnNoInputs == Fragment("function", Some("transfer"), None, None)

\* a function entry whose name is the empty string
FnEmptyName == Fragment("function", Some(""), Some(<<>>), Some(<<>>))

Constructor == Fragment("constructor", None, Some(<<Elem("a", "uint256", FALSE)>>), None)

\* the three inputs of the event transfer, with the given indexed flags
EvTransfer(ia, ib, ic) ==
    Fragment("event", Some("transfer"),
             Some(<<Elem("a", "uint256", ia), Elem("b", "bool", ib),
                    Elem("c", "address", ic)>>), None)

\* an event whose two inputs share a name
EvDuplicate ==
    Fragment("event", Some("many_msg_babbage"),
             Some(<<Elem("a", "uint256", FALSE), Elem("a", "uint256", TRUE)>>), None)

\* an event whose name is the empty string
EvEmptyName == Fragment("event", Some(""), Some(<<Elem("a", "uint256", FALSE)>>), None)

\* an event entry without inputs
EvNoInputs == Fragment("event", Some("transfer"), None, None)

\* an event with the name and the input types of FnTransfer
EvLikeFn ==
    Fragment("event", Some("transfer"),
             Some(<<Elem("a", "address", TRUE), Elem("b", "uint256", FALSE)>>), None)

FragmentPool ==
    {FnTransfer, FnBabbage, FnTransferBool, ErrTransfer, FnNoInputs, FnEmptyName,
     Constructor, EvLikeFn}

EventPool ==
    {EvTransfer(ia, ib, ic) : ia \in BOOLEAN, ib \in BOOLEAN, ic \in BOOLEAN}
        \cup {EvDuplicate, EvEmptyName, EvNoInputs}

Names == {"transfer", "many_msg_babbage", ""}

ParamNames == {"a", "b", "c"}

\* value maps: a value for some or all of the parameter names
ValueMaps == UNION {[keys -> Values] : keys \in SUBSET ParamNames}

\* calldata handed to decodeFunction: what encodeFunction returns, an empty
\* payload, and a selector with no arguments
Calldata ==
    {encodeFunction(c[1], c[2]).value :
        c \in {x \in Names \X ValueMaps : encodeFunction(x[1], x[2]).ok}}
        \cup {"0x", "0xa9059cbb"}

\* (topics, data) handed to decodeEvent: what encodeEvent returns, the same
\* with its last topic dropped, and no topics at all
EventLogs ==
    LET encoded == {encodeEvent(c[1], c[2]).value :
                       c \in {x \in Names \X ValueMaps : encodeEvent(x[1], x[2]).ok}}
    IN  encoded
            \cup {[topics |-> SubSeq(e.topics, 1, Len(e.topics) - 1), data |-> e.data] :
                      e \in encoded}
            \cup {[topics |-> <<>>, data |-> "0x"]}

\* data handed to decodeFunctionOutput
OutputData ==
    {encodeFunctionOutput(c[1], c[2]).value :
        c \in {x \in Names \X ValueMaps : encodeFunctionOutput(x[1], x[2]).ok}}
        \cup {"0x"}

\* data handed to decodeConstructor
ConstructorData ==
    {encodeConstructor(m).value : m \in {x \in ValueMaps : encodeConstructor(x).ok}}
        \cup {"0x"}

\* selectors and topics handed to the lookups: those of the entries, and one of none
Selectors ==
    {getFunctionSelector(n).value : n \in {x \in Names : getFunctionSelector(x).ok}}
        \cup {"0x00000000"}

Topics ==
    {getEventTopic(n).value : n \in {x \in Names : getEventTopic(x).ok}}
        \cup {ZeroWord}

-----------------------------------------------------------------------------
(* Actions: one per operation.  A call is made when the caller holds no result;   *)
(* it records the arguments and what the operation returned or threw.             *)

\* mutant of Call: the lookup takes the first entry out of the ABI (Array.shift)
CallConsumingAbi(operation, arguments, result) ==
    /\ op' = operation
    /\ args' = arguments
    /\ ret' = result
    /\ abi' = IF Len(abi) > 0 THEN Tail(abi) ELSE abi

Call(operation, arguments, result) ==
    /\ op' = operation
    /\ args' = arguments
    /\ ret' = result
    /\ UNCHANGED abi

GetFunctionSelector ==
    /\ op = "idle"
    /\ \E name \in Names :
          Call("getFunctionSelector", [name |-> name], getFunctionSelector(name))

GetEventTopic ==
    /\ op = "idle"
    /\ \E name \in Names : Call("getEventTopic", [name |-> name], getEventTopic(name))

DecodeConstructor ==
    /\ op = "idle"
    /\ \E data \in ConstructorData :
          Call("decodeConstructor", [data |-> data], decodeConstructor(data))

DecodeEvent ==
    /\ op = "idle"
    /\ \E log \in EventLogs :
          Call("decodeEvent", log, decodeEvent(log.topics, log.data))

DecodeFunction ==
    /\ op = "idle"
    /\ \E data \in Calldata :
          Call("decodeFunction", [data |-> data], decodeFunction(data))

DecodeFunctionOutput ==
    /\ op = "idle"
    /\ \E name \in Names, data \in OutputData :
          Call("decodeFunctionOutput", [name |-> name, data |-> data],
               decodeFunctionOutput(name, data))

EncodeConstructor ==
    /\ op = "idle"
    /\ \E valueMap \in ValueMaps :
          Call("encodeConstructor", [valueMap |-> valueMap], encodeConstructor(valueMap))

EncodeEvent ==
    /\ op = "idle"
    /\ \E name \in Names, values \in ValueMaps :
          Call("encodeEvent", [name |-> name, values |-> values],
               encodeEvent(name, values))

EncodeFunction ==
    /\ op = "idle"
    /\ \E name \in Names, valueMap \in ValueMaps :
          Call("encodeFunction", [name |-> name, valueMap |-> valueMap],
               encodeFunction(name, valueMap))

EncodeFunctionOutput ==
    /\ op = "idle"
    /\ \E name \in Names, valueMap \in ValueMaps :
          Call("encodeFunctionOutput", [name |-> name, valueMap |-> valueMap],
               encodeFunctionOutput(name, valueMap))

GetConstructor ==
    /\ op = "idle"
    /\ Call("getConstructor", <<>>, getConstructor)

GetFunctionByName ==
    /\ op = "idle"
    /\ \E name \in Names :
          Call("getFunctionByName", [name |-> name], getFunctionByName(name))

GetFunctionBySelector ==
    /\ op = "idle"
    /\ \E selector \in Selectors :
          Call("getFunctionBySelector", [selector |-> selector],
               getFunctionBySelector(selector))

GetEventByName ==
    /\ op = "idle"
    /\ \E name \in Names : Call("getEventByName", [name |-> name], getEventByName(name))

GetEventByTopic ==
    /\ op = "idle"
    /\ \E topic \in Topics :
          Call("getEventByTopic", [topic |-> topic], getEventByTopic(topic))

\* the caller lets go of the result; the Coder is ready for the next call
Done ==
    /\ op # "idle"
    /\ op' = "idle"
    /\ args' = <<>>
    /\ ret' = <<>>
    /\ UNCHANGED abi

-----------------------------------------------------------------------------
(* Specifications *)

\* new Coder(abi)
Construct(fragments) ==
    /\ abi = fragments
    /\ op = "idle"
    /\ args = <<>>
    /\ ret = <<>>

Init == \E fragments \in SeqsOf(FragmentPool, 0, MaxAbiLen) : Construct(fragments)

Next ==
    \/ GetFunctionSelector
    \/ GetEventTopic
    \/ DecodeConstructor
    \/ DecodeEvent
    \/ DecodeFunction
    \/ DecodeFunctionOutput
    \/ EncodeConstructor
    \/ EncodeEvent
    \/ EncodeFunction
    \/ EncodeFunctionOutput
    \/ GetConstructor
    \/ GetFunctionByName
    \/ GetFunctionBySelector
    \/ GetEventByName
    \/ GetEventByTopic
    \/ Done

Spec == Init /\ [][Next]_vars

\* Coders over ABIs of events only, called through the event operations
InitEvent == \E fragments \in SeqsOf(EventPool, 0, MaxAbiLen) : Construct(fragments)

NextEvent ==
    \/ GetEventTopic
    \/ DecodeEvent
    \/ EncodeEvent
    \/ GetEventByName
    \/ GetEventByTopic
    \/ Done

SpecEvent == InitEvent /\ [][NextEvent]_vars

\* the signature canonicalizer alone, on parameter lists nested two tuples deep
ElemTypes == {"uint256", "address"}

TupleTypes == {"tuple", "tuple[]", "tuple[3]"}

ElemLists == SeqsOf({Elem("x", type, FALSE) : type \in ElemTypes}, 0, MaxParams)

\* elementary parameters around one tuple whose components are one of `lists`
WithTuple(lists) ==
    {pair[1] \o <<Tuple("x", type, FALSE, components)>> \o pair[2] :
        pair \in {p \in ElemLists \X ElemLists : Len(p[1]) + Len(p[2]) < MaxParams},
        type \in TupleTypes, components \in lists}

\* the parameter lists of the documented examples
ExampleInputs ==
    {<<Tuple("x", "tuple", FALSE,
             <<Elem("x", "uint256", FALSE), Elem("x", "address", FALSE)>>)>>,
     <<Elem("x", "uint256[3]", FALSE)>>,
     <<Tuple("x", "tuple[]", FALSE, <<Elem("x", "bool", FALSE)>>)>>}

SignatureInputs ==
    ElemLists \cup WithTuple(ElemLists) \cup WithTuple(WithTuple(ElemLists))
        \cup ExampleInputs

GetSignature ==
    /\ op = "idle"
    /\ \E inputs \in SignatureInputs :
          Call("getSignature", [name |-> "f", inputs |-> inputs],
               Return(getSignature("f", inputs)))

InitPure == Construct(<<>>)

NextSignature ==
    \/ GetSignature
    \/ Done

SpecSignature == InitPure /\ [][NextSignature]_vars

\* the value mapper alone
MapParamNames == {"a", "b", "toString"}

MapInputs == SeqsOf({Elem(name, "uint256", FALSE) : name \in MapParamNames}, 0, MaxParams)

PositionalValues == SeqsOf(Values \cup {Undefined}, 0, MaxParams)

MapValueMaps == UNION {[keys -> Values] : keys \in SUBSET MapParamNames}

ToValueMap ==
    /\ op = "idle"
    /\ \E values \in PositionalValues, inputs \in MapInputs :
          Call("toValueMap", [values |-> values, inputs |-> inputs],
               IF Len(values) > Len(inputs) THEN Throw
               ELSE Return(toValueMap(values, inputs)))

ToValues ==
    /\ op = "idle"
    /\ \E valueMap \in MapValueMaps, inputs \in MapInputs :
          Call("toValues", [valueMap |-> valueMap, inputs |-> inputs],
               Return(toValues(valueMap, inputs)))

NextValueMapper ==
    \/ ToValueMap
    \/ ToValues
    \/ Done

SpecValueMapper == InitPure /\ [][NextValueMapper]_vars

\* Coders over events that differ in indexed flags only, at three nesting levels
EvNested(ia, ibc, id) ==
    Fragment("event", Some("many_msg_babbage"),
             Some(<<Tuple("a", "tuple[]", ia,
                          <<Elem("b", "uint256", ibc),
                            Tuple("c", "tuple[3]", ibc, <<Elem("d", "address", id)>>)>>)>>),
             None)

IndexedEventPool ==
    {EvTransfer(ia, ib, ic) : ia \in BOOLEAN, ib \in BOOLEAN, ic \in BOOLEAN}
        \cup {EvNested(ia, ibc, id) : ia \in BOOLEAN, ibc \in BOOLEAN, id \in BOOLEAN}

IndexedTopics ==
    {sha3("transfer(uint256,bool,address)"),
     sha3("many_msg_babbage((uint256,(address)[3])[])"),
     ZeroWord}

InitIndexed == \E fragments \in SeqsOf(IndexedEventPool, 0, MaxAbiLen) : Construct(fragments)

\* Coder.getSignature(name, inputs) as getEventTopic calls it for an event
GetSignatureOfEvent ==
    /\ op = "idle"
    /\ \E event \in IndexedEventPool :
          LET name == Get(event.name)
              inputs == mapFromObject(Get(event.inputs))
          IN  Call("getSignature", [name |-> name, inputs |-> inputs],
                   Return(getSignature(name, inputs)))

GetIndexedEventByTopic ==
    /\ op = "idle"
    /\ \E topic \in IndexedTopics :
          Call("getEventByTopic", [topic |-> topic], getEventByTopic(topic))

NextIndexed ==
    \/ GetSignatureOfEvent
    \/ GetEventTopic
    \/ GetIndexedEventByTopic
    \/ Done

SpecIndexed == InitIndexed /\ [][NextIndexed]_vars

-----------------------------------------------------------------------------
(* Properties *)

\* pairwise distinct names
distinctNames(inputs) ==
    \A i, j \in 1..Len(inputs) : inputs[i].name = inputs[j].name => i = j

\* where the first "[" of a type string is (past its end when it has none)
bracketAt(type) ==
    LET at1 == {i \in 1..Len(type) : SubSeq(type, i, i) = "["}
    IN  IF at1 = {} THEN Len(type) + 1 ELSE CHOOSE i \in at1 : \A j \in at1 : i <= j

\* the canonical type string of a parameter: an elementary type is its tag, a tuple
\* is its components' strings in parentheses, an array is its element's string
\* followed by [arity] or []
RECURSIVE canonicalType(_)
canonicalType(param) ==
    LET base == SubSeq(param.type, 1, bracketAt(param.type) - 1)
        arrays == SubSeq(param.type, bracketAt(param.type), Len(param.type))
    IN  IF base = "tuple"
        THEN "(" \o join([i \in 1..Len(param.components) |->
                             canonicalType(param.components[i])], ",") \o ")" \o arrays
        ELSE base \o arrays

\* C6: getSignature(name, params) is name, "(", the canonical type strings of the
\* parameters joined by commas, ")", at every nesting depth; the three documented
\* examples render as documented.
C6_SignatureIsCanonical ==
    op = "getSignature" =>
        /\ ret.value = args.name \o "("
               \o join([i \in 1..Len(args.inputs) |-> canonicalType(args.inputs[i])], ",")
               \o ")"
        /\ args.inputs = <<Tuple("x", "tuple", FALSE,
                                 <<Elem("x", "uint256", FALSE), Elem("x", "address", FALSE)>>)>>
               => ret.value = "f((uint256,address))"
        /\ args.inputs = <<Elem("x", "uint256[3]", FALSE)>> => ret.value = "f(uint256[3])"
        /\ args.inputs = <<Tuple("x", "tuple[]", FALSE, <<Elem("x", "bool", FALSE)>>)>>
               => ret.value = "f((bool)[])"

\* a fixed array of tuples that hold a dynamic array of tuples, beside elementary
\* parameters, has been rendered
C6_Witness ==
    /\ op = "getSignature"
    /\ ret.value = "f(uint256,((address)[],uint256)[3])"

\* C3: toValues(toValueMap(values, params), params) = values when the names of
\* params are pairwise distinct and there is one value per parameter.
C3_ValueMapRoundTrip ==
    (/\ op = "toValueMap"
     /\ distinctNames(args.inputs)
     /\ Len(args.values) = Len(args.inputs))
        => /\ ret.ok
           /\ toValues(ret.value, args.inputs) = args.values

\* two parameters of different names were mapped to two different values
C3_Witness ==
    /\ op = "toValueMap"
    /\ Len(args.inputs) = 2
    /\ distinctNames(args.inputs)
    /\ Len(args.values) = 2
    /\ args.values[1] # args.values[2]
    /\ ret.ok
    /\ toValues(ret.value, args.inputs) = args.values

\* how many of the inputs before position i have the given indexed flag
countBefore(inputs, i, flag) == Cardinality({j \in 1..(i - 1) : inputs[j].indexed = flag})

\* the positions of the inputs that have the given indexed flag, in order
positionsOf(inputs, flag) ==
    LET isAt(i) == inputs[i].indexed = flag
    IN  SelectSeq([i \in 1..Len(inputs) |-> i], isAt)

\* the entries of the ABI of the given types, in ABI order
entriesOf(types) ==
    LET hasType(item) == item.type \in types
    IN  SelectSeq(abi, hasType)

\* the entries of the ABI of the given type and name, in ABI order
entriesNamed(type, name) ==
    LET isNamed(item) == item.type = type /\ IsSome(item.name) /\ Get(item.name) = name
    IN  SelectSeq(abi, isNamed)

\* C1: decodeEvent puts the decoded values in the declaration order of the event's
\* inputs: the value of the i-th input is the one decoded from topic 1 + k when it
\* is the k-th (0-based) indexed input, and the j-th value decoded from the data
\* when it is the j-th (0-based) non-indexed input.  This holds of the `result`
\* array decodeEvent assembles and, when the names are distinct, of the values it
\* returns under the inputs' names.
C1_DecodeEventDeclarationOrder ==
    (op = "decodeEvent" /\ ret.ok) =>
        LET inputs == ret.value.inputs
            result == decodeEventResult(args.topics, args.data).value.result
            fromData == decode(dataInputsOf(inputs), args.data).value
            expected(i) ==
                IF inputs[i].indexed
                THEN decode(<<inputs[i]>>,
                            args.topics[2 + countBefore(inputs, i, TRUE)]).value[1]
                ELSE fromData[1 + countBefore(inputs, i, FALSE)]
        IN  /\ inputs = Get(getEventByTopic(args.topics[1]).value.inputs)
            /\ Len(result) = Len(inputs)
            /\ \A i \in 1..Len(inputs) : result[i] = expected(i)
            /\ distinctNames(inputs) =>
                   /\ DOMAIN ret.value.values = {inputs[i].name : i \in 1..Len(inputs)}
                   /\ \A i \in 1..Len(inputs) : ret.value.values[inputs[i].name] = expected(i)

\* an event whose data input lies between two indexed inputs was decoded, and the
\* value from the data differs from both values from the topics
C1_Witness ==
    /\ op = "decodeEvent"
    /\ ret.ok
    /\ [i \in 1..Len(ret.value.inputs) |-> ret.value.inputs[i].indexed] = <<TRUE, FALSE, TRUE>>
    /\ ret.value.values["a"] # ret.value.values["b"]
    /\ ret.value.values["c"] # ret.value.values["b"]

\* the codec's decode inverts its encode on the calls encodeEvent makes for these
\* inputs and values: each indexed value alone, the other values together
codecInvertsEvent(inputs, values) ==
    LET inverts(types, vals) ==
            /\ encode(types, vals).ok
            /\ decode(types, encode(types, vals).value) = Return(vals)
        dataInputs == dataInputsOf(inputs)
    IN  /\ \A i \in 1..Len(inputs) :
               inputs[i].indexed => inverts(<<inputs[i]>>, <<values[inputs[i].name]>>)
        /\ inverts(dataInputs, [i \in 1..Len(dataInputs) |-> values[dataInputs[i].name]])

\* encodeEvent(name, values) has returned, for an event with distinct input names
\* and a value map with exactly one value per input that the codec round-trips
eventEncoded ==
    /\ op = "encodeEvent"
    /\ ret.ok
    /\ LET inputs == Get(Head(entriesNamed("event", args.name)).inputs)
       IN  /\ distinctNames(inputs)
           /\ DOMAIN args.values = {inputs[i].name : i \in 1..Len(inputs)}
           /\ codecInvertsEvent(inputs, args.values)

\* what the round trip is to give: the event's name, its inputs, the same values
eventDecodedBack ==
    decodeEvent(ret.value.topics, ret.value.data) =
        Return([name |-> args.name,
                inputs |-> Get(Head(entriesNamed("event", args.name)).inputs),
                values |-> args.values])

\* C2, as claimed: decodeEvent of what encodeEvent(name, values) returns gives the
\* name and the same values under the same names, for every event resolvable by
\* name with distinct input names.
C2_EventRoundTripAnyName == eventEncoded => eventDecodedBack

\* C2, amended: the same, for every event whose name is not the empty string.
C2_EventRoundTrip == (eventEncoded /\ args.name # "") => eventDecodedBack

\* an event [indexed a, b, indexed c] was encoded with b's value different from
\* a's and c's, and decodes back; the ABI holds a second event of the same
\* signature with other indexed flags
C2_Witness ==
    /\ eventEncoded
    /\ args.name = "transfer"
    /\ Len(abi) = 2
    /\ abi[1] = EvTransfer(TRUE, FALSE, TRUE)
    /\ abi[2] = EvTransfer(FALSE, TRUE, TRUE)
    /\ args.values["a"] # args.values["b"]
    /\ args.values["c"] # args.values["b"]
    /\ eventDecodedBack

\* C9: encodeEvent returns 1 + (number of indexed inputs) topics: the event topic,
\* then the encoding of each indexed input's value alone, in order; data is the
\* encoding of the non-indexed inputs' values together, in order.  It throws
\* exactly when one of these encodings does.
C9_EncodeEventLayout ==
    (op = "encodeEvent" /\ getEventTopic(args.name).ok) =>
        LET inputs == Get(Head(entriesNamed("event", args.name)).inputs)
            indexed == positionsOf(inputs, TRUE)
            others == positionsOf(inputs, FALSE)
            valueOf(i) == property(args.values, inputs[i].name)
            topicOf(k) == encode(<<inputs[indexed[k]]>>, <<valueOf(indexed[k])>>)
            data == encode([j \in 1..Len(others) |-> inputs[others[j]]],
                           [j \in 1..Len(others) |-> valueOf(others[j])])
        IN  IF data.ok /\ \A k \in 1..Len(indexed) : topicOf(k).ok
            THEN /\ ret.ok
                 /\ Len(ret.value.topics) = 1 + Len(indexed)
                 /\ ret.value.topics[1] = getEventTopic(args.name).value
                 /\ \A k \in 1..Len(indexed) : ret.value.topics[k + 1] = topicOf(k).value
                 /\ ret.value.data = data.value
            ELSE ~ret.ok

\* an event [a, indexed b, c] was encoded: two topics, and data of two words
\* that differ
C9_Witness ==
    /\ op = "encodeEvent"
    /\ ret.ok
    /\ abi[1] = EvTransfer(FALSE, TRUE, FALSE)
    /\ Len(ret.value.topics) = 2
    /\ Len(ret.value.data) = 2 + 64 + 64
    /\ SubSeq(ret.value.data, 3, 66) # SubSeq(ret.value.data, 67, 130)

\* the 16 hex digits
HexChars == {SubSeq(HexDigits, i, i) : i \in 1..Len(HexDigits)}

\* "0x" followed by hex digits only
isHexString(str) ==
    /\ startsWith(str, "0x")
    /\ \A i \in 3..Len(str) : SubSeq(str, i, i) \in HexChars

\* the selector an entry with a name and inputs hashes to
selectorOf(item) == SubSeq(sha3(getSignature(Get(item.name), Get(item.inputs))), 1, 10)

\* getFunctionSelector(name) has returned a selector
selectorReturned == op = "getFunctionSelector" /\ ret.ok

\* getFunctionBySelector finds, for the selector returned, an entry of that name
foundBySelectorHasName ==
    /\ getFunctionBySelector(ret.value).ok
    /\ getFunctionBySelector(ret.value).value.name = Some(args.name)

\* a function or error entry of another name that hashes to the selector returned
collidingEntry ==
    \E i \in 1..Len(abi) :
        /\ abi[i].type \in {"function", "error"}
        /\ IsSome(abi[i].name) /\ IsSome(abi[i].inputs)
        /\ Get(abi[i].name) # args.name
        /\ selectorOf(abi[i]) = ret.value

C5_LookupsThrowWhenNothingMatches ==
    LET noFunction(name) == Len(entriesNamed("function", name)) = 0
        noEvent(name) == Len(entriesNamed("event", name)) = 0
        noConstructor == Len(entriesOf({"constructor"})) = 0
        noSelector(selector) ==
            \A i \in 1..Len(abi) :
                (/\ abi[i].type \in {"function", "error"}
                 /\ IsSome(abi[i].name) /\ IsSome(abi[i].inputs))
                    => selectorOf(abi[i]) # selector
        noTopic(topic) ==
            \A i \in 1..Len(abi) :
                (/\ abi[i].type = "event"
                 /\ IsSome(abi[i].name) /\ IsSome(abi[i].inputs))
                    => sha3(getSignature(Get(abi[i].name), Get(abi[i].inputs))) # topic
        byFunctionName == {"getFunctionByName", "getFunctionSelector", "encodeFunction",
                           "encodeFunctionOutput", "decodeFunctionOutput"}
        byEventName == {"getEventByName", "getEventTopic", "encodeEvent"}
        byConstructor == {"getConstructor", "encodeConstructor", "decodeConstructor"}
    IN  /\ (op \in byFunctionName /\ noFunction(args.name)) => ret = Throw
        /\ (op \in byEventName /\ noEvent(args.name)) => ret = Throw
        /\ (op \in byConstructor /\ noConstructor) => ret = Throw
        /\ (op = "getFunctionBySelector" /\ noSelector(args.selector)) => ret = Throw
        /\ (op = "decodeFunction" /\ noSelector(substring(args.data, 0, 10))) => ret = Throw
        /\ (op = "getEventByTopic" /\ noTopic(args.topic)) => ret = Throw
        /\ (op = "decodeEvent" /\ noTopic(at(args.topics, 0))) => ret = Throw

\* encodeFunctionOutput threw for a name that only an event and an error of the
\* ABI have
C5_Witness ==
    /\ op = "encodeFunctionOutput"
    /\ args.name = "transfer"
    /\ abi = <<EvLikeFn, ErrTransfer>>
    /\ ret = Throw

\* C7: a selector is "0x" and 8 hex digits (4 bytes), a topic "0x" and 64 hex
\* digits (32 bytes), both cut from the digest of the signature; for a function and
\* an event of equal name and input types the selector is the first 10 characters
\* of the topic.
C7_SelectorIsPrefixOfTopic ==
    /\ (op = "getFunctionSelector" /\ ret.ok) =>
           LET func == Head(entriesNamed("function", args.name))
               digest == sha3(getSignature(args.name, Get(func.inputs)))
               typesOf(inputs) == [i \in 1..Len(inputs) |-> canonicalType(inputs[i])]
           IN  /\ Len(ret.value) = 2 + 8
               /\ isHexString(ret.value)
               /\ Len(digest) = 2 + 64
               /\ ret.value = SubSeq(digest, 1, 10)
               /\ (/\ Len(entriesNamed("event", args.name)) > 0
                   /\ IsSome(Head(entriesNamed("event", args.name)).inputs)
                   /\ typesOf(Get(Head(entriesNamed("event", args.name)).inputs))
                          = typesOf(Get(func.inputs)))
                          => /\ getEventTopic(args.name).ok
                             /\ ret.value = SubSeq(getEventTopic(args.name).value, 1, 10)
    /\ (op = "getEventTopic" /\ ret.ok) =>
           /\ Len(ret.value) = 2 + 64
           /\ isHexString(ret.value)

\* the selector of transfer(address,uint256) was returned from an ABI that also
\* holds the event transfer(address,uint256); it is the well-known 0xa9059cbb
C7_Witness ==
    /\ op = "getFunctionSelector"
    /\ abi = <<FnTransfer, EvLikeFn>>
    /\ args.name = "transfer"
    /\ ret = Return("0xa9059cbb")
    /\ getEventTopic("transfer").ok
    /\ SubSeq(getEventTopic("transfer").value, 1, 10) = "0xa9059cbb"

\* C8: encodeFunction(name, valueMap) is the selector getFunctionSelector(name)
\* returns followed by the codec's encoding, without its "0x", of
\* toValues(valueMap, inputs): one hex string with one "0x".  It throws exactly
\* when the codec does.
C8_CalldataLayout ==
    (op = "encodeFunction" /\ getFunctionSelector(args.name).ok) =>
        LET inputs == Get(Head(entriesNamed("function", args.name)).inputs)
            encoded == encode(inputs, toValues(args.valueMap, inputs))
        IN  IF encoded.ok
            THEN /\ ret.ok
                 /\ ret.value = getFunctionSelector(args.name).value
                                    \o SubSeq(encoded.value, 3, Len(encoded.value))
                 /\ isHexString(ret.value)
            ELSE ~ret.ok

\* transfer(address,uint256) was encoded with two different values
C8_Witness ==
    /\ op = "encodeFunction"
    /\ ret.ok
    /\ abi[1] = FnTransfer
    /\ args.name = "transfer"
    /\ SubSeq(ret.value, 1, 10) = "0xa9059cbb"
    /\ Len(ret.value) = 10 + 64 + 64
    /\ SubSeq(ret.value, 11, 74) # SubSeq(ret.value, 75, 138)

\* C10: getFunctionByName(name) returns the first entry of the ABI whose type is
\* function and whose name is name, whatever entries of other types have that
\* name; getFunctionSelector, encodeFunction, encodeFunctionOutput and
\* decodeFunctionOutput work on that entry alone.
C10_FirstFunctionOfThatName ==
    (/\ op \in {"getFunctionByName", "getFunctionSelector", "encodeFunction",
                "encodeFunctionOutput", "decodeFunctionOutput"}
     /\ \E i \in 1..Len(abi) : abi[i].type = "function" /\ abi[i].name = Some(args.name))
        =>
        LET at1 == CHOOSE i \in 1..Len(abi) :
                       /\ abi[i].type = "function" /\ abi[i].name = Some(args.name)
                       /\ \A j \in 1..(i - 1) :
                              ~(abi[j].type = "function" /\ abi[j].name = Some(args.name))
            func == abi[at1]
            inputs == Get(func.inputs)
            outputs == Get(func.outputs)
        IN  CASE op = "getFunctionByName" -> ret = Return(func)
              [] op = "getFunctionSelector" ->
                    IF IsSome(func.inputs)
                    THEN ret = Return(SubSeq(sha3(getSignature(args.name, inputs)), 1, 10))
                    ELSE ret = Throw
              [] op = "encodeFunction" ->
                    IF IsSome(func.inputs)
                           /\ encode(inputs, toValues(args.valueMap, inputs)).ok
                    THEN /\ ret.ok
                         /\ SubSeq(ret.value, 1, 10)
                                = SubSeq(sha3(getSignature(args.name, inputs)), 1, 10)
                         /\ "0x" \o SubSeq(ret.value, 11, Len(ret.value))
                                = encode(inputs, toValues(args.valueMap, inputs)).value
                    ELSE ret = Throw
              [] op = "encodeFunctionOutput" ->
                    IF IsSome(func.outputs)
                    THEN ret = encode(outputs, toValues(args.valueMap, outputs))
                    ELSE ret = Throw
              [] op = "decodeFunctionOutput" ->
                    IF IsSome(func.outputs) /\ decode(outputs, args.data).ok
                    THEN ret = Return([name |-> args.name, outputs |-> outputs,
                                       values |-> toValueMap(decode(outputs, args.data).value,
                                                             outputs)])
                    ELSE ret = Throw

\* the outputs of the first of two overloads of transfer were encoded, the ABI
\* holding the overload with the bool input first
C10_Witness ==
    /\ op = "encodeFunctionOutput"
    /\ abi = <<FnTransferBool, FnTransfer>>
    /\ args.name = "transfer"
    /\ ret.ok
    /\ ret = encode(Get(FnTransferBool.outputs),
                    toValues(args.valueMap, Get(FnTransferBool.outputs)))
    /\ ret # encode(Get(FnTransfer.outputs), toValues(args.valueMap, Get(FnTransfer.outputs)))

\* what the operation `op` gives for the arguments `args` on the ABI now held
outcome ==
    CASE op = "getFunctionSelector" -> getFunctionSelector(args.name)
      [] op = "getEventTopic" -> getEventTopic(args.name)
      [] op = "decodeConstructor" -> decodeConstructor(args.data)
      [] op = "decodeEvent" -> decodeEvent(args.topics, args.data)
      [] op = "decodeFunction" -> decodeFunction(args.data)
      [] op = "decodeFunctionOutput" -> decodeFunctionOutput(args.name, args.data)
      [] op = "encodeConstructor" -> encodeConstructor(args.valueMap)
      [] op = "encodeEvent" -> encodeEvent(args.name, args.values)
      [] op = "encodeFunction" -> encodeFunction(args.name, args.valueMap)
      [] op = "encodeFunctionOutput" -> encodeFunctionOutput(args.name, args.valueMap)
      [] op = "getConstructor" -> getConstructor
      [] op = "getFunctionByName" -> getFunctionByName(args.name)
      [] op = "getFunctionBySelector" -> getFunctionBySelector(args.selector)
      [] op = "getEventByName" -> getEventByName(args.name)
      [] op = "getEventByTopic" -> getEventByTopic(args.topic)

\* C11: no operation, returning or throwing, changes the ABI the Coder holds, and
\* what an operation gives is determined by that ABI and its own arguments: between
\* calls the Coder holds the ABI and nothing else.
C11_AbiIsReadOnly ==
    /\ [][abi' = abi]_vars
    /\ [](op # "idle" => ret = outcome)
    /\ [](op = "idle" => args = <<>> /\ ret = <<>>)

\* decodeFunction threw on a Coder of two entries, which it still holds
C11_Witness ==
    /\ op = "decodeFunction"
    /\ ret = Throw
    /\ abi = <<ErrTransfer, FnTransfer>>

\* the names of the parameters
namesOf(inputs) == {inputs[i].name : i \in 1..Len(inputs)}

\* the map without the keys in `dropped`
withoutKeys(valueMap, dropped) == [k \in DOMAIN valueMap \ dropped |-> valueMap[k]]

\* C12: toValues(valueMap, params) returns, never throwing, one entry per parameter
\* in declaration order: undefined for a parameter whose name is not a key of the
\* map, the mapped value for any other; keys no parameter names change nothing.
C12_ToValuesMissingKeyUndefined ==
    op = "toValues" =>
        /\ ret.ok
        /\ Len(ret.value) = Len(args.inputs)
        /\ \A i \in 1..Len(args.inputs) :
               ret.value[i] = IF args.inputs[i].name \in DOMAIN args.valueMap
                              THEN args.valueMap[args.inputs[i].name]
                              ELSE Undefined
        /\ ret.value = toValues(withoutKeys(args.valueMap,
                                            DOMAIN args.valueMap \ namesOf(args.inputs)),
                                args.inputs)

\* the parameters with every indexed flag, at every nesting level, cleared
RECURSIVE clearIndexed(_)
clearIndexed(inputs) ==
    [i \in 1..Len(inputs) |->
        [name |-> inputs[i].name, type |-> inputs[i].type, indexed |-> FALSE,
         components |-> clearIndexed(inputs[i].components)]]

\* the topic of an event entry with a name and inputs, its indexed flags cleared
topicWithoutFlags(event) ==
    sha3(getSignature(Get(event.name), clearIndexed(mapFromObject(Get(event.inputs)))))

\* C13: the indexed flags, at any nesting level, take no part in the signature:
\* getSignature gives what it gives with every flag cleared, getEventTopic the
\* digest of that string, and getEventByTopic the first event entry whose
\* signature with the flags cleared hashes to the topic.
C13_IndexedNotInSignature ==
    /\ op = "getSignature" =>
           ret = Return(getSignature(args.name, clearIndexed(args.inputs)))
    /\ op = "getEventTopic" =>
           LET events == entriesNamed("event", args.name)
           IN  IF Len(events) > 0 /\ IsSome(Head(events).inputs)
               THEN ret = Return(topicWithoutFlags(Head(events)))
               ELSE ret = Throw
    /\ op = "getEventByTopic" =>
           LET hits == {i \in 1..Len(abi) :
                           /\ abi[i].type = "event"
                           /\ ~falsy(abi[i].name) /\ IsSome(abi[i].inputs)
                           /\ topicWithoutFlags(abi[i]) = args.topic}
           IN  IF hits = {} THEN ret = Throw
               ELSE ret = Return(abi[CHOOSE i \in hits : \A j \in hits : i <= j])

\* the topic of the nested event was looked up in an ABI that holds it twice with
\* different flags at each level; the first entry was found
C13_Witness ==
    /\ op = "getEventByTopic"
    /\ abi = <<EvNested(TRUE, FALSE, TRUE), EvNested(FALSE, TRUE, FALSE)>>
    /\ args.topic = sha3("many_msg_babbage((uint256,(address)[3])[])")
    /\ ret = Return(EvNested(TRUE, FALSE, TRUE))
    /\ topicWithoutFlags(abi[1]) = topicWithoutFlags(abi[2])

\* C14: toValueMap of parameters that share a name, with one value per parameter,
\* throws nothing and returns a map with one key per distinct name, holding the
\* value at the highest position among the parameters of that name; it has fewer
\* keys than there are parameters.
C14_LastWriteWins ==
    (/\ op = "toValueMap"
     /\ Len(args.values) = Len(args.inputs)
     /\ ~distinctNames(args.inputs))
        => /\ ret.ok
           /\ DOMAIN ret.value = namesOf(args.inputs)
           /\ \A k \in DOMAIN ret.value :
                  \E i \in 1..Len(args.inputs) :
                      /\ args.inputs[i].name = k
                      /\ \A j \in 1..Len(args.inputs) : args.inputs[j].name = k => j <= i
                      /\ ret.value[k] = args.values[i]
           /\ Cardinality(DOMAIN ret.value) < Len(args.inputs)

\* two parameters named a were mapped with two different values; the map holds
\* the second under a
C14_Witness ==
    /\ op = "toValueMap"
    /\ Len(args.inputs) = 2
    /\ args.inputs[1].name = "a" /\ args.inputs[2].name = "a"
    /\ args.values = <<"0", "1">>
    /\ ret = Return([k \in {"a"} |-> "1"])

\* encodeFunction(name, valueMap) has returned, for a function with distinct input
\* names and a value map with exactly one value per input that the codec
\* round-trips
functionEncoded ==
    /\ op = "encodeFunction"
    /\ ret.ok
    /\ LET inputs == Get(Head(entriesNamed("function", args.name)).inputs)
           values == toValues(args.valueMap, inputs)
       IN  /\ distinctNames(inputs)
           /\ DOMAIN args.valueMap = namesOf(inputs)
           /\ encode(inputs, values).ok
           /\ decode(inputs, encode(inputs, values).value) = Return(values)

\* what the round trip is to give: the function's name and the same value map
functionDecodedBack ==
    /\ decodeFunction(ret.value).ok
    /\ decodeFunction(ret.value).value.name = args.name
    /\ decodeFunction(ret.value).value.values = args.valueMap

\* the names and types of the inputs, in order
namesAndTypes(inputs) ==
    [i \in 1..Len(inputs) |-> <<inputs[i].name, inputs[i].type>>]

\* the first function or error entry with the selector of the calldata returned
\* has the name encoded and the input names and types of the function encoded
firstWithSelectorAgrees ==
    LET hits == {i \in 1..Len(abi) :
                    /\ abi[i].type \in {"function", "error"}
                    /\ ~falsy(abi[i].name) /\ IsSome(abi[i].inputs)
                    /\ selectorOf(abi[i]) = SubSeq(ret.value, 1, 10)}
        firstHit == abi[CHOOSE i \in hits : \A j \in hits : i <= j]
    IN  /\ hits # {}
        /\ firstHit.name = Some(args.name)
        /\ namesAndTypes(Get(firstHit.inputs))
               = namesAndTypes(Get(Head(entriesNamed("function", args.name)).inputs))

\* C15, as claimed: decodeFunction(encodeFunction(name, valueMap)) returns the name
\* and a value map equal to valueMap, for every ABI and every function resolvable
\* by name with distinct input names, also when an error entry or an earlier entry
\* has the function's signature.
C15_CalldataRoundTripAnyAbi == functionEncoded => functionDecodedBack

\* C15, amended: the same, provided the first function or error entry of the ABI
\* that has a non-empty name, inputs and the selector of the calldata has the name
\* and the input names and types of the function encoded.
C15_CalldataRoundTrip == (functionEncoded /\ firstWithSelectorAgrees) => functionDecodedBack

\* transfer(address a, uint256 b) was encoded with two different values and decodes
\* back; the ABI holds, after the function, an error of the same signature with
\* other parameter names
C15_Witness ==
    /\ functionEncoded
    /\ abi = <<FnTransfer, ErrTransfer>>
    /\ args.name = "transfer"
    /\ args.valueMap["a"] # args.valueMap["b"]
    /\ firstWithSelectorAgrees
    /\ functionDecodedBack


=============================================================================
